---- MODULE Spec2Model ----
(***************************************************************************)
(* Model of ai-code-patterns: the code-block extractor, the review-comment *)
(* builder, the command-line parser and the file-processing run of the     *)
(* command-line tool, once and repeated.                                   *)
(* Strings are sequences of one-character strings, so that substring       *)
(* search, regular-expression matching and concatenation are computed on   *)
(* characters as the JavaScript code computes them.                        *)
(***************************************************************************)
EXTENDS Integers, Sequences, FiniteSets, TLC

VARIABLES
  \* the extractor alone
  response, outcome, again,
  \* the comment builder alone
  name, dateArg, comment, otherDate, otherComment, required, legacy,
  \* a run of main()
  promptName, dryRun, today, fs,
  pc, idx, filesToProcess, filesAlreadyProcessed, date, pending,
  requests, writes, result, before, edited, answer, inflight, run, stamp,
  \* the command line and the environment, and what getParams makes of them
  argv, env, params

extractVars == <<response, outcome, again>>
commentVars == <<name, dateArg, comment, otherDate, otherComment, required,
                 legacy>>
runVars == <<promptName, dryRun, today, fs, pc, idx, filesToProcess,
             filesAlreadyProcessed, date, pending, requests, writes, result,
             before, edited, answer, inflight, run, stamp>>
paramVars == <<argv, env, params>>
vars == <<extractVars, commentVars, runVars, paramVars>>

----------------------------------------------------------------------------
(* Characters and string helpers                                           *)

\* one-character strings: the backtick, the newline and the space are
\* written by name
BT == "BACKTICK"
NL == "NEWLINE"
SP == " "

\* the literal of three backticks that opens the pattern (FENCE below)
Fence == <<BT, BT, BT>>
\* the literal \nFENCE that ends the pattern
CloseLit == <<NL, BT, BT, BT>>

\* lit occurs in t at position p (1-based)
HasLit(t, p, lit) ==
  /\ p >= 1
  /\ p + Len(lit) - 1 <= Len(t)
  /\ \A k \in 1..Len(lit) : t[p + k - 1] = lit[k]

\* String.prototype.includes
includes(t, lit) ==
  \E p \in 1..(Len(t) - Len(lit) + 1) :
    \A k \in 1..Len(lit) : t[p + k - 1] = lit[k]

RECURSIVE Flatten(_)
Flatten(ss) == IF ss = <<>> THEN <<>> ELSE Head(ss) \o Flatten(Tail(ss))

----------------------------------------------------------------------------
(* extractCodeBlock: the pattern /FENCE[^\n]*\n(.*?)\nFENCE/, flags s and gs *)

NoMatch == [ok |-> FALSE]

\* variant: a greedy group, the longest content first
RECURSIVE greedyGroup(_, _, _, _)
greedyGroup(t, s, c, m) ==
  IF m < 0 THEN NoMatch
  ELSE IF HasLit(t, c + m, CloseLit)
       THEN [ok |-> TRUE, index |-> s, stop |-> c + m + Len(CloseLit),
             group |-> SubSeq(t, c, c + m - 1)]
       ELSE greedyGroup(t, s, c, m - 1)

lazyGroup_greedy(t, s, c, m) == greedyGroup(t, s, c, Len(t) + 1 - c)

\* variant: no newline required before the closing fence
RECURSIVE lazyGroup_noNewlineBeforeClose(_, _, _, _)
lazyGroup_noNewlineBeforeClose(t, s, c, m) ==
  IF c + m > Len(t) + 1 THEN NoMatch
  ELSE IF HasLit(t, c + m, Fence)
       THEN [ok |-> TRUE, index |-> s, stop |-> c + m + Len(Fence),
             group |-> SubSeq(t, c, c + m - 1)]
       ELSE lazyGroup_noNewlineBeforeClose(t, s, c, m + 1)

\* variant: the closing fence must be the whole of its line
RECURSIVE lazyGroup_closeWholeLine(_, _, _, _)
lazyGroup_closeWholeLine(t, s, c, m) ==
  IF c + m > Len(t) + 1 THEN NoMatch
  ELSE IF /\ HasLit(t, c + m, CloseLit)
          /\ \/ c + m + Len(CloseLit) > Len(t)
             \/ t[c + m + Len(CloseLit)] = NL
       THEN [ok |-> TRUE, index |-> s, stop |-> c + m + Len(CloseLit),
             group |-> SubSeq(t, c, c + m - 1)]
       ELSE lazyGroup_closeWholeLine(t, s, c, m + 1)

\* (.*?)\nFENCE : the lazy group, with the s flag, takes m characters of any
\* kind, shortest first, until the literal \nFENCE follows
RECURSIVE lazyGroup(_, _, _, _)
lazyGroup(t, s, c, m) ==
  IF c + m > Len(t) + 1 THEN NoMatch
  ELSE IF HasLit(t, c + m, CloseLit)
       THEN [ok |-> TRUE, index |-> s, stop |-> c + m + Len(CloseLit),
             group |-> SubSeq(t, c, c + m - 1)]
       ELSE lazyGroup(t, s, c, m + 1)

\* the longest run of characters other than newline that starts at p
RECURSIVE tagRun(_, _)
tagRun(t, p) ==
  IF p > Len(t) \/ t[p] = NL THEN 0 ELSE 1 + tagRun(t, p + 1)

\* [^\n]*\n : greedy, n characters then a newline, longest first,
\* backtracking to shorter runs when the rest of the pattern fails
RECURSIVE greedyTag(_, _, _)
greedyTag(t, s, n) ==
  IF n < 0 THEN NoMatch
  ELSE LET p == s + Len(Fence) + n
           r == lazyGroup(t, s, p + 1, 0)
       IN IF p <= Len(t) /\ t[p] = NL /\ r.ok THEN r
          ELSE greedyTag(t, s, n - 1)

\* variant: the opening fence must begin a line
matchAt_lineAnchored(t, s) ==
  IF HasLit(t, s, Fence) /\ (s = 1 \/ t[s - 1] = NL)
  THEN greedyTag(t, s, tagRun(t, s + Len(Fence)))
  ELSE NoMatch

\* one attempt of the pattern at start position s
matchAt(t, s) ==
  IF HasLit(t, s, Fence) THEN greedyTag(t, s, tagRun(t, s + Len(Fence)))
  ELSE NoMatch

\* RegExp exec: the leftmost start position from lastIndex on that matches
RECURSIVE execFrom(_, _)
execFrom(t, s) ==
  IF s > Len(t) THEN NoMatch
  ELSE LET r == matchAt(t, s)
       IN IF r.ok THEN r ELSE execFrom(t, s + 1)

\* the g flag: every match, each search resuming where the last match ended
RECURSIVE matchAllFrom(_, _)
matchAllFrom(t, s) ==
  LET r == execFrom(t, s)
  IN IF r.ok THEN <<SubSeq(t, r.index, r.stop - 1)>> \o matchAllFrom(t, r.stop)
     ELSE <<>>

\* response.match(/.../gs): the array of matched substrings, or null
matchGlobal(t) ==
  LET all == matchAllFrom(t, 1)
  IN [isNull |-> all = <<>>, items |-> all]

\* response.match(/.../s): [whole match, group 1], or null
matchFirst(t) ==
  LET r == execFrom(t, 1)
  IN IF r.ok THEN [isNull |-> FALSE,
                   items |-> <<SubSeq(t, r.index, r.stop - 1), r.group>>]
     ELSE [isNull |-> TRUE, items |-> <<>>]

\* String.prototype.trim
RECURSIVE trim(_)
trim(t) ==
  IF t = <<>> THEN t
  ELSE IF Head(t) \in {NL, SP} THEN trim(Tail(t))
  ELSE IF t[Len(t)] \in {NL, SP} THEN trim(SubSeq(t, 1, Len(t) - 1))
  ELSE t

\* variant: the first of several blocks is taken
extractCodeBlock_firstOfMany(resp) ==
  LET count == matchGlobal(resp)
      match == matchFirst(resp)
  IN IF count.isNull \/ match.isNull
     THEN [kind |-> "throw", got |-> 0]
     ELSE [kind |-> "return", value |-> match.items[2]]

\* variant: the captured text is trimmed
extractCodeBlock_trimmed(resp) ==
  LET count == matchGlobal(resp)
      match == matchFirst(resp)
  IN IF count.isNull \/ Len(count.items) # 1
        \/ match.isNull \/ Len(match.items) # 2
     THEN [kind |-> "throw",
           got |-> IF ~count.isNull THEN Len(count.items) ELSE 0]
     ELSE [kind |-> "return", value |-> trim(match.items[2])]

\* variant: a text without a match is not rejected
extractCodeBlock_emptyOnNone(resp) ==
  LET count == matchGlobal(resp)
      match == matchFirst(resp)
  IN IF ~count.isNull /\ Len(count.items) # 1
     THEN [kind |-> "throw", got |-> Len(count.items)]
     ELSE [kind |-> "return",
           value |-> IF match.isNull THEN <<>> ELSE match.items[2]]

extractCodeBlock(resp) ==
  LET count == matchGlobal(resp)
      match == matchFirst(resp)
  IN IF count.isNull \/ Len(count.items) # 1
        \/ match.isNull \/ Len(match.items) # 2
     THEN [kind |-> "throw",
           got |-> IF ~count.isNull THEN Len(count.items) ELSE 0]
     ELSE [kind |-> "return", value |-> match.items[2]]

----------------------------------------------------------------------------
(* generateComment                                                         *)

\* the text // performed " that opens the comment
CommentHead ==
  <<"/", "/", SP, "p", "e", "r", "f", "o", "r", "m", "e", "d", SP,
    "\"">>
\* the text " review that follows the name
CommentTail == <<"\"", SP, "r", "e", "v", "i", "e", "w">>
\* the text  on  that precedes the date
CommentOn == <<SP, "o", "n", SP>>

\* an optional string argument: left out, or a string
NoDate == [given |-> FALSE, str |-> <<>>]
Dated(d) == [given |-> TRUE, str |-> d]

\* JavaScript truthiness of an optional string: undefined and "" are falsy
truthy(arg) == arg.given /\ arg.str # <<>>

\* String.prototype.split(".")[0]
RECURSIVE firstSegment(_)
firstSegment(t) ==
  IF t = <<>> \/ Head(t) = "." THEN <<>>
  ELSE <<Head(t)>> \o firstSegment(Tail(t))

\* variant: the name is cut at its first dot
generateComment_firstSegment(pName, d) ==
  LET c == CommentHead \o firstSegment(pName) \o CommentTail
  IN IF truthy(d) THEN c \o CommentOn \o d.str ELSE c

\* variant: the date is left out of the comment
generateComment_dateless(pName, d) == CommentHead \o pName \o CommentTail

generateComment(pName, d) ==
  LET c == CommentHead \o pName \o CommentTail
  IN IF truthy(d) THEN c \o CommentOn \o d.str ELSE c

\* String.prototype.lastIndexOf("."), 0 when there is no dot
lastDot(t) ==
  LET dots == {p \in 1..Len(t) : t[p] = "."}
  IN IF dots = {} THEN 0 ELSE CHOOSE p \in dots : \A q \in dots : q <= p

\* variant: only the last extension of the file name is cut off
generateCommentOfFile_lastExtension(promptFile, d) ==
  LET promptName_ == IF lastDot(promptFile) = 0 THEN promptFile
                     ELSE SubSeq(promptFile, 1, lastDot(promptFile) - 1)
      c == CommentHead \o promptName_ \o CommentTail
  IN IF truthy(d) THEN c \o CommentOn \o d.str ELSE c

\* the earlier generateComment(promptFile, date?): the name is the file name
\* up to its first dot
generateCommentOfFile(promptFile, d) ==
  LET promptName_ == firstSegment(promptFile)
      c == CommentHead \o promptName_ \o CommentTail
  IN IF truthy(d) THEN c \o CommentOn \o d.str ELSE c

----------------------------------------------------------------------------
(* getParams: the command line                                             *)

\* an optional string: undefined, or a string
undefined == [given |-> FALSE, str |-> <<>>]
Str(t) == [given |-> TRUE, str |-> t]

DryOpt == <<"-", "-", "d", "r", "y">>
NameOpt == <<"-", "-", "n", "a", "m", "e", "=">>
ModelOpt == <<"-", "-", "m", "o", "d", "e", "l", "=">>
IncludesOpt ==
  <<"-", "-", "i", "n", "c", "l", "u", "d", "e", "s", "=">>
ExtOpt == <<"-", "-", "e", "x", "t", "=">>
Dashes == <<"-", "-">>
ReviewLit == <<".", "r", "e", "v", "i", "e", "w">>

\* String.prototype.startsWith and slice(n)
startsWith(t, lit) == HasLit(t, 1, lit)
slice(t, n) == SubSeq(t, n + 1, Len(t))

\* String.prototype.indexOf, 1-based, 0 when lit does not occur
indexOf(t, lit) ==
  LET hits == {q \in 1..Len(t) : HasLit(t, q, lit)}
  IN IF hits = {} THEN 0 ELSE CHOOSE q \in hits : \A r \in hits : q <= r

\* String.prototype.replace with a string pattern: the first occurrence only
replace(t, lit, by) ==
  LET q == indexOf(t, lit)
  IN IF q = 0 THEN t
     ELSE SubSeq(t, 1, q - 1) \o by \o SubSeq(t, q + Len(lit), Len(t))

\* String.prototype.split(",")
RECURSIVE split(_)
split(t) ==
  LET q == indexOf(t, <<",">>)
  IN IF q = 0 THEN <<t>>
     ELSE <<SubSeq(t, 1, q - 1)>> \o split(SubSeq(t, q + 1, Len(t)))

\* .map((ext) => ext.trim()).filter(Boolean)
RECURSIVE trimmedNonEmpty(_)
trimmedNonEmpty(parts) ==
  IF parts = <<>> THEN <<>>
  ELSE IF trim(Head(parts)) = <<>> THEN trimmedNonEmpty(Tail(parts))
  ELSE <<trim(Head(parts))>> \o trimmedNonEmpty(Tail(parts))

\* path.basename(p): trailing slashes dropped, then what follows the last slash
RECURSIVE dropTrailingSlashes(_)
dropTrailingSlashes(t) ==
  IF t # <<>> /\ t[Len(t)] = "/"
  THEN dropTrailingSlashes(SubSeq(t, 1, Len(t) - 1)) ELSE t

basename(t) ==
  LET q == dropTrailingSlashes(t)
      slashes == {i \in 1..Len(q) : q[i] = "/"}
      last == IF slashes = {} THEN 0
              ELSE CHOOSE i \in slashes : \A j \in slashes : j <= i
  IN SubSeq(q, last + 1, Len(q))

\* the locals of getParams before the loop; exited is set by process.exit(1)
locals(envModel) ==
  [promptPath |-> undefined, promptName |-> undefined,
   sourcePath |-> undefined, includesText |-> undefined,
   gptModel |-> envModel, extensions |-> [given |-> FALSE, list |-> <<>>],
   dryRun |-> FALSE, exited |-> FALSE]

\* variant: --dry is ignored once the prompt path has been read
optionStep_dryIgnoredAfterPath(st, arg) ==
  IF arg = DryOpt
    THEN IF truthy(st.promptPath) THEN st ELSE [st EXCEPT !.dryRun = TRUE]
  ELSE IF startsWith(arg, NameOpt)
    THEN [st EXCEPT !.promptName = Str(slice(arg, Len(NameOpt)))]
  ELSE IF startsWith(arg, ModelOpt)
    THEN [st EXCEPT !.gptModel = Str(slice(arg, Len(ModelOpt)))]
  ELSE IF startsWith(arg, IncludesOpt)
    THEN [st EXCEPT !.includesText = Str(slice(arg, Len(IncludesOpt)))]
  ELSE IF startsWith(arg, ExtOpt)
    THEN [st EXCEPT !.extensions =
            [given |-> TRUE,
             list |-> trimmedNonEmpty(split(slice(arg, Len(ExtOpt))))]]
  ELSE [st EXCEPT !.exited = TRUE]

\* one turn of the loop for an argument that starts with two dashes
optionStep(st, arg) ==
  IF arg = DryOpt
    THEN [st EXCEPT !.dryRun = TRUE]
  ELSE IF startsWith(arg, NameOpt)
    THEN [st EXCEPT !.promptName = Str(slice(arg, Len(NameOpt)))]
  ELSE IF startsWith(arg, ModelOpt)
    THEN [st EXCEPT !.gptModel = Str(slice(arg, Len(ModelOpt)))]
  ELSE IF startsWith(arg, IncludesOpt)
    THEN [st EXCEPT !.includesText = Str(slice(arg, Len(IncludesOpt)))]
  ELSE IF startsWith(arg, ExtOpt)
    THEN [st EXCEPT !.extensions =
            [given |-> TRUE,
             list |-> trimmedNonEmpty(split(slice(arg, Len(ExtOpt))))]]
  ELSE [st EXCEPT !.exited = TRUE]

\* the name taken from the prompt path when no name has been given
derivedName(promptPath_) == replace(basename(promptPath_), ReviewLit, <<>>)

\* variant: the prompt path always sets the name
positionalStep_alwaysDerives(st, arg) ==
  IF ~truthy(st.promptPath)
    THEN [st EXCEPT !.promptPath = Str(arg),
                    !.promptName = Str(derivedName(arg))]
  ELSE IF ~truthy(st.sourcePath)
    THEN [st EXCEPT !.sourcePath = Str(arg)]
  ELSE st

\* one turn of the loop for any other argument
positionalStep(st, arg) ==
  IF ~truthy(st.promptPath)
    THEN [st EXCEPT !.promptPath = Str(arg),
                    !.promptName = IF ~truthy(st.promptName)
                                   THEN Str(derivedName(arg))
                                   ELSE st.promptName]
  ELSE IF ~truthy(st.sourcePath)
    THEN [st EXCEPT !.sourcePath = Str(arg)]
  ELSE st

\* the loop over process.argv from index 2 on; nothing runs after an exit
RECURSIVE paramLoop(_, _)
paramLoop(st, args) ==
  IF args = <<>> \/ st.exited THEN st
  ELSE paramLoop(IF startsWith(Head(args), Dashes)
                 THEN optionStep(st, Head(args))
                 ELSE positionalStep(st, Head(args)),
                 Tail(args))

Exit(code) == [kind |-> "exit", code |-> code]

getParams(args, envModel) ==
  LET st == paramLoop(locals(envModel), args)
  IN IF st.exited THEN Exit(1)
     ELSE IF ~truthy(st.gptModel) THEN Exit(1)
     ELSE IF ~truthy(st.promptPath) \/ ~truthy(st.sourcePath)
             \/ ~truthy(st.promptName) THEN Exit(1)
     ELSE [kind |-> "return",
           value |-> [promptPath |-> st.promptPath.str,
                      gptModel |-> st.gptModel.str,
                      promptName |-> st.promptName.str,
                      sourcePath |-> st.sourcePath.str,
                      includesText |-> st.includesText,
                      extensions |-> st.extensions,
                      dryRun |-> st.dryRun]]

----------------------------------------------------------------------------
(* A run of main(): pre-scan, dry-run check, processFile per file          *)

NumFiles == 2
MaxEdits == 1
MaxRuns == 2

\* the day the run starts on and the day after it
Days == {1, 2}

\* the list getFilePaths returns
files == [i \in 1..NumFiles |-> i]
Files == 1..NumFiles

Digits == <<"0", "1", "2", "3", "4", "5", "6", "7", "8", "9">>

\* moment().format("YYYY-MM-DD") on day d of the modelled month
formatDate(d) ==
  <<"2", "0", "2", "5", "-", "0", "1", "-", "0", Digits[d + 1]>>

RunNames == {<<"a">>}

\* what a file holds when the run starts: plain code, code under a comment of
\* another name, or code under a comment of name a written the day before
\* the run or on its first day
InitialContents ==
  { <<"x">>,
    generateComment(<<"b">>, Dated(formatDate(1))) \o <<NL, "x">>,
    generateComment(<<"a">>, Dated(formatDate(0))) \o <<NL, "x">>,
    generateComment(<<"a">>, Dated(formatDate(1))) \o <<NL, "x">> }

OneBlock == Fence \o <<"t", "s", NL, "y">> \o CloseLit

\* what the completion request resolves to: message content null, or a text
\* with no block, one block or two blocks
Completions ==
  { [hasContent |-> FALSE, content |-> <<>>],
    [hasContent |-> TRUE, content |-> <<"o", "k">>],
    [hasContent |-> TRUE, content |-> <<"o", "k", NL>> \o OneBlock],
    [hasContent |-> TRUE, content |-> OneBlock \o <<NL>> \o OneBlock] }

\* variant: every file is taken to require processing
requiresProcessing_always(content, pName) == TRUE

\* variant: the comment has to be a whole line of the file
requiresProcessing_wholeLine(content, pName) ==
  IF includes(content, generateComment(pName, NoDate) \o <<NL>>)
  THEN FALSE ELSE TRUE

\* requiresProcessing, given what readFile returned
requiresProcessing(content, pName) ==
  IF includes(content, generateComment(pName, NoDate)) THEN FALSE ELSE TRUE

current == filesToProcess[idx]

\* history: the response text processFile received for a file, if any
NoAnswer == [got |-> FALSE]
Answer(resp) == [got |-> TRUE, text |-> resp]

Bump(f, k) == [f EXCEPT ![k] = @ + 1]

\* the asynchronous calls the run has issued and that have not settled yet
Request(f) == [op |-> "request", file |-> f]
Write(f) == [op |-> "write", file |-> f]

\* const prompt = await readFile(params.promptPath)
ReadPrompt ==
  /\ pc = "start"
  /\ \/ pc' = "prescan"
     \/ pc' = "rejected"
  /\ UNCHANGED <<extractVars, commentVars, paramVars, run, stamp, inflight,
                 promptName, dryRun, today, fs,
                 idx, filesToProcess,
                 filesAlreadyProcessed, date, pending, requests, writes,
                 result, before, edited, answer>>

\* variant: a file the pre-scan cannot read is left out and the scan goes on
PrescanFile_skipsUnreadable ==
  /\ pc = "prescan"
  /\ idx <= Len(files)
  /\ \/ /\ idx' = idx + 1
        /\ UNCHANGED <<pc, filesToProcess, filesAlreadyProcessed>>
     \/ /\ requiresProcessing(fs[files[idx]], promptName)
        /\ filesToProcess' = Append(filesToProcess, files[idx])
        /\ idx' = idx + 1
        /\ UNCHANGED <<pc, filesAlreadyProcessed>>
     \/ /\ ~requiresProcessing(fs[files[idx]], promptName)
        /\ filesAlreadyProcessed' = Append(filesAlreadyProcessed, files[idx])
        /\ idx' = idx + 1
        /\ UNCHANGED <<pc, filesToProcess>>
  /\ UNCHANGED <<extractVars, commentVars, paramVars, run, stamp, inflight,
                 promptName, dryRun, today, fs, date, pending, requests,
                 writes, result, before, edited, answer>>

\* one turn of the pre-scan loop: await requiresProcessing(file, promptName)
PrescanFile ==
  /\ pc = "prescan"
  /\ idx <= Len(files)
  /\ \/ \* readFile rejects: nothing catches it, main rejects
        /\ pc' = "rejected"
        /\ UNCHANGED <<idx, filesToProcess, filesAlreadyProcessed>>
     \/ /\ requiresProcessing(fs[files[idx]], promptName)
        /\ filesToProcess' = Append(filesToProcess, files[idx])
        /\ idx' = idx + 1
        /\ UNCHANGED <<pc, filesAlreadyProcessed>>
     \/ /\ ~requiresProcessing(fs[files[idx]], promptName)
        /\ filesAlreadyProcessed' = Append(filesAlreadyProcessed, files[idx])
        /\ idx' = idx + 1
        /\ UNCHANGED <<pc, filesToProcess>>
  /\ UNCHANGED <<extractVars, commentVars, paramVars, run, stamp, inflight,
                 promptName, dryRun, today, fs,
                 date, pending, requests,
                 writes, result, before, edited, answer>>

\* after the pre-scan: the report, then if (params.dryRun) return
DryRunCheck ==
  /\ pc = "prescan"
  /\ idx > Len(files)
  /\ \/ dryRun /\ pc' = "done"
     \/ ~dryRun /\ pc' = "process"
  /\ idx' = 1
  /\ UNCHANGED <<extractVars, commentVars, paramVars, run, stamp, inflight,
                 promptName, dryRun, today, fs,
                 filesToProcess,
                 filesAlreadyProcessed, date, pending, requests, writes,
                 result, before, edited, answer>>

\* variant: the loop does not await processFile, so the next file is started
\* while the call for the one before it is still pending
ProcessFileStart_notAwaited ==
  LET k == IF pc = "process" THEN idx ELSE idx + 1
  IN /\ pc \in {"process", "awaitCompletion", "awaitWrite"}
     /\ k <= Len(filesToProcess)
     /\ before' = [before EXCEPT ![filesToProcess[k]] = fs[filesToProcess[k]]]
     /\ date' = formatDate(today)
     /\ requests' = Bump(requests, filesToProcess[k])
     /\ inflight' = inflight \cup {Request(filesToProcess[k])}
     /\ idx' = k
     /\ pc' = "awaitCompletion"
     /\ UNCHANGED <<extractVars, commentVars, paramVars, run, stamp,
                    promptName, dryRun, today, fs,
                    filesToProcess, filesAlreadyProcessed, pending, writes,
                    edited, answer, result>>

\* processFile up to its first await that leaves the process: the date, the
\* read, the check for today's comment, and the completion request. The
\* locals date and pending are empty outside a call of processFile.
ProcessFileStart ==
  /\ pc = "process"
  /\ idx <= Len(filesToProcess)
  /\ before' = [before EXCEPT ![current] = fs[current]]
  /\ \/ \* readFile rejects: caught by processFile
        /\ result' = [result EXCEPT ![current] = "readError"]
        /\ date' = <<>>
        /\ idx' = idx + 1
        /\ UNCHANGED <<pc, requests, inflight>>
     \/ /\ includes(fs[current],
                    generateComment(promptName, Dated(formatDate(today))))
        /\ result' = [result EXCEPT ![current] = "skipped"]
        /\ date' = <<>>
        /\ idx' = idx + 1
        /\ UNCHANGED <<pc, requests, inflight>>
     \/ /\ ~includes(fs[current],
                     generateComment(promptName, Dated(formatDate(today))))
        /\ date' = formatDate(today)
        /\ requests' = Bump(requests, current)
        /\ inflight' = inflight \cup {Request(current)}
        /\ pc' = "awaitCompletion"
        /\ UNCHANGED <<idx, result>>
  /\ UNCHANGED <<extractVars, commentVars, paramVars, run, stamp, promptName,
                 dryRun, today, fs,
                 filesToProcess,
                 filesAlreadyProcessed, pending, writes, edited, answer>>

\* variant: when no single block is found the response itself is written
CompletionReturns_writesResponse ==
  /\ pc = "awaitCompletion"
  /\ \E completion \in Completions :
       LET resp == IF completion.hasContent THEN completion.content ELSE <<>>
           extractedCode == extractCodeBlock(resp)
           generatedComment == generateComment(promptName, Dated(date))
       IN /\ answer' = [answer EXCEPT ![current] = Answer(resp)]
          /\ pending' = generatedComment \o <<NL>> \o
                        (IF extractedCode.kind = "throw" THEN resp
                         ELSE extractedCode.value)
          /\ writes' = Bump(writes, current)
          /\ inflight' = (inflight \ {Request(current)}) \cup {Write(current)}
          /\ pc' = "awaitWrite"
          /\ UNCHANGED <<result, idx>>
  /\ UNCHANGED <<extractVars, commentVars, paramVars, run, stamp, promptName,
                 dryRun, today, fs,
                 filesToProcess,
                 filesAlreadyProcessed, date, requests, before, edited>>

\* variant: when no single block is found the request is sent once more
CompletionReturns_retryOnce ==
  /\ pc = "awaitCompletion"
  /\ \E completion \in Completions :
       LET resp == IF completion.hasContent THEN completion.content ELSE <<>>
           extractedCode == extractCodeBlock(resp)
           generatedComment == generateComment(promptName, Dated(date))
       IN \/ /\ extractedCode.kind = "throw"
             /\ requests[current] < 2
             /\ answer' = [answer EXCEPT ![current] = Answer(resp)]
             /\ requests' = Bump(requests, current)
             /\ UNCHANGED <<result, idx, pc, date, inflight, pending, writes>>
          \/ /\ extractedCode.kind = "throw"
             /\ requests[current] >= 2
             /\ answer' = [answer EXCEPT ![current] = Answer(resp)]
             /\ result' = [result EXCEPT ![current] = "extractError"]
             /\ idx' = idx + 1
             /\ pc' = "process"
             /\ date' = <<>>
             /\ inflight' = inflight \ {Request(current)}
             /\ UNCHANGED <<pending, writes, requests>>
          \/ /\ extractedCode.kind = "return"
             /\ answer' = [answer EXCEPT ![current] = Answer(resp)]
             /\ pending' = generatedComment \o <<NL>> \o extractedCode.value
             /\ writes' = Bump(writes, current)
             /\ inflight' = (inflight \ {Request(current)})
                            \cup {Write(current)}
             /\ pc' = "awaitWrite"
             /\ UNCHANGED <<result, idx, date, requests>>
  /\ UNCHANGED <<extractVars, commentVars, paramVars, run, stamp, promptName,
                 dryRun, today, fs,
                 filesToProcess, filesAlreadyProcessed, before, edited>>

\* variant: the extracted code is written without the comment
CompletionReturns_noComment ==
  /\ pc = "awaitCompletion"
  /\ \E completion \in Completions :
       LET resp == IF completion.hasContent THEN completion.content ELSE <<>>
           extractedCode == extractCodeBlock(resp)
       IN \/ /\ extractedCode.kind = "throw"
             /\ answer' = [answer EXCEPT ![current] = Answer(resp)]
             /\ result' = [result EXCEPT ![current] = "extractError"]
             /\ idx' = idx + 1
             /\ pc' = "process"
             /\ date' = <<>>
             /\ inflight' = inflight \ {Request(current)}
             /\ UNCHANGED <<pending, writes>>
          \/ /\ extractedCode.kind = "return"
             /\ answer' = [answer EXCEPT ![current] = Answer(resp)]
             /\ pending' = extractedCode.value
             /\ writes' = Bump(writes, current)
             /\ inflight' = (inflight \ {Request(current)})
                            \cup {Write(current)}
             /\ pc' = "awaitWrite"
             /\ UNCHANGED <<result, idx, date>>
  /\ UNCHANGED <<extractVars, commentVars, paramVars, run, stamp, promptName,
                 dryRun, today, fs, filesToProcess, filesAlreadyProcessed,
                 requests, before, edited>>

\* variant: a blank line is put between the comment and the code
CompletionReturns_blankLine ==
  /\ pc = "awaitCompletion"
  /\ \E completion \in Completions :
       LET resp == IF completion.hasContent THEN completion.content ELSE <<>>
           extractedCode == extractCodeBlock(resp)
           generatedComment == generateComment(promptName, Dated(date))
       IN \/ /\ extractedCode.kind = "throw"
             /\ answer' = [answer EXCEPT ![current] = Answer(resp)]
             /\ result' = [result EXCEPT ![current] = "extractError"]
             /\ idx' = idx + 1
             /\ pc' = "process"
             /\ date' = <<>>
             /\ inflight' = inflight \ {Request(current)}
             /\ UNCHANGED <<pending, writes>>
          \/ /\ extractedCode.kind = "return"
             /\ answer' = [answer EXCEPT ![current] = Answer(resp)]
             /\ pending' = generatedComment \o <<NL, NL>> \o
                             extractedCode.value
             /\ writes' = Bump(writes, current)
             /\ inflight' = (inflight \ {Request(current)})
                            \cup {Write(current)}
             /\ pc' = "awaitWrite"
             /\ UNCHANGED <<result, idx, date>>
  /\ UNCHANGED <<extractVars, commentVars, paramVars, run, stamp, promptName,
                 dryRun, today, fs,
                 filesToProcess,
                 filesAlreadyProcessed, requests, before, edited>>

\* the completion request resolves: the response, extractCodeBlock, and the
\* call of writeFile
CompletionReturns ==
  /\ pc = "awaitCompletion"
  /\ \E completion \in Completions :
       LET resp == IF completion.hasContent THEN completion.content ELSE <<>>
           extractedCode == extractCodeBlock(resp)
           generatedComment == generateComment(promptName, Dated(date))
       IN \/ \* extractCodeBlock throws: caught by processFile
             /\ extractedCode.kind = "throw"
             /\ answer' = [answer EXCEPT ![current] = Answer(resp)]
             /\ result' = [result EXCEPT ![current] = "extractError"]
             /\ idx' = idx + 1
             /\ pc' = "process"
             /\ date' = <<>>
             /\ inflight' = inflight \ {Request(current)}
             /\ UNCHANGED <<pending, writes>>
          \/ /\ extractedCode.kind = "return"
             /\ answer' = [answer EXCEPT ![current] = Answer(resp)]
             /\ pending' = generatedComment \o <<NL>> \o extractedCode.value
             /\ writes' = Bump(writes, current)
             /\ inflight' = (inflight \ {Request(current)})
                            \cup {Write(current)}
             /\ pc' = "awaitWrite"
             /\ UNCHANGED <<result, idx, date>>
  /\ UNCHANGED <<extractVars, commentVars, paramVars, run, stamp, promptName,
                 dryRun, today, fs,
                 filesToProcess,
                 filesAlreadyProcessed, requests, before, edited>>

\* variant: a rejected completion request is not caught and ends main
CompletionFails_rejectsMain ==
  /\ pc = "awaitCompletion"
  /\ pc' = "rejected"
  /\ date' = <<>>
  /\ inflight' = inflight \ {Request(current)}
  /\ UNCHANGED <<extractVars, commentVars, paramVars, run, stamp, promptName,
                 dryRun, today, fs, idx, filesToProcess,
                 filesAlreadyProcessed, pending, requests, writes, result,
                 before, edited, answer>>

\* the completion request rejects: caught by processFile
CompletionFails ==
  /\ pc = "awaitCompletion"
  /\ result' = [result EXCEPT ![current] = "requestError"]
  /\ idx' = idx + 1
  /\ pc' = "process"
  /\ date' = <<>>
  /\ inflight' = inflight \ {Request(current)}
  /\ UNCHANGED <<extractVars, commentVars, paramVars, run, stamp, promptName,
                 dryRun, today, fs,
                 filesToProcess,
                 filesAlreadyProcessed, pending, requests, writes,
                 before, edited, answer>>

\* writeFile resolves
WriteSucceeds ==
  /\ pc = "awaitWrite"
  /\ fs' = [fs EXCEPT ![current] = pending]
  /\ stamp' = [stamp EXCEPT ![current] = run]
  /\ result' = [result EXCEPT ![current] = "finished"]
  /\ idx' = idx + 1
  /\ pc' = "process"
  /\ date' = <<>>
  /\ pending' = <<>>
  /\ inflight' = inflight \ {Write(current)}
  /\ UNCHANGED <<extractVars, commentVars, paramVars, run, promptName,
                 dryRun, today,
                 filesToProcess,
                 filesAlreadyProcessed, requests, writes,
                 before, edited, answer>>

\* writeFile rejects, before or after it truncated the file: caught
WriteFails ==
  /\ pc = "awaitWrite"
  /\ \/ UNCHANGED <<fs, stamp>>
     \/ /\ fs' = [fs EXCEPT ![current] = <<>>]
        /\ stamp' = [stamp EXCEPT ![current] = 0]
  /\ result' = [result EXCEPT ![current] = "writeError"]
  /\ idx' = idx + 1
  /\ pc' = "process"
  /\ date' = <<>>
  /\ pending' = <<>>
  /\ inflight' = inflight \ {Write(current)}
  /\ UNCHANGED <<extractVars, commentVars, paramVars, run, promptName,
                 dryRun, today,
                 filesToProcess,
                 filesAlreadyProcessed, requests, writes,
                 before, edited, answer>>

\* the loop over filesToProcess ends and main returns
MainReturns ==
  /\ pc = "process"
  /\ idx > Len(filesToProcess)
  /\ pc' = "done"
  /\ UNCHANGED <<extractVars, commentVars, paramVars, run, stamp, inflight,
                 promptName, dryRun, today, fs,
                 idx, filesToProcess,
                 filesAlreadyProcessed, date, pending, requests, writes,
                 result, before, edited, answer>>

Running == pc \notin {"done", "rejected"}

\* the tool is started again with the same command line, on the same day or
\* on the next one; the files are as the run before left them
NewRun ==
  /\ ~Running
  /\ run < MaxRuns
  /\ run' = run + 1
  /\ today' \in {today, today + 1} \cap Days
  /\ pc' = "start"
  /\ idx' = 1
  /\ filesToProcess' = <<>>
  /\ filesAlreadyProcessed' = <<>>
  /\ requests' = [f \in Files |-> 0]
  /\ writes' = [f \in Files |-> 0]
  /\ result' = [f \in Files |-> "none"]
  /\ answer' = [f \in Files |-> NoAnswer]
  /\ before' = fs
  /\ UNCHANGED <<extractVars, commentVars, paramVars, promptName, dryRun, fs,
                 date, pending, edited, inflight, stamp>>

\* midnight passes while the run is under way
Midnight ==
  /\ Running
  /\ today + 1 \in Days
  /\ today' = today + 1
  /\ UNCHANGED <<extractVars, commentVars, paramVars, run, stamp, inflight,
                 promptName, dryRun, fs, pc, idx,
                 filesToProcess,
                 filesAlreadyProcessed, date, pending, requests, writes,
                 result, before, edited, answer>>

\* another process rewrites a file during the run, as a second instance of
\* the tool would: today's comment, then code
ExternalEdit ==
  /\ Running
  /\ Cardinality(edited) < MaxEdits
  /\ \E f \in Files \ edited :
       /\ fs' = [fs EXCEPT ![f] =
                   generateComment(promptName, Dated(formatDate(today)))
                     \o <<NL, "z">>]
       /\ edited' = edited \cup {f}
       /\ stamp' = [stamp EXCEPT ![f] = 0]
  /\ UNCHANGED <<extractVars, commentVars, paramVars, run, inflight,
                 promptName, dryRun, today, pc,
                 idx, filesToProcess,
                 filesAlreadyProcessed, date, pending, requests, writes,
                 result, before, answer>>

----------------------------------------------------------------------------
(* Specifications                                                          *)

NotCalled == [kind |-> "none"]

ExtractIdle ==
  /\ response = <<>>
  /\ outcome = NotCalled
  /\ again = NotCalled

CommentIdle ==
  /\ name = <<>>
  /\ dateArg = NoDate
  /\ comment = NotCalled
  /\ otherDate = NoDate
  /\ otherComment = NotCalled
  /\ required = NotCalled
  /\ legacy = NotCalled

ParamsIdle ==
  /\ argv = <<>>
  /\ env = undefined
  /\ params = NotCalled

RunIdle ==
  /\ promptName = <<"a">>
  /\ dryRun = FALSE
  /\ today = 1
  /\ fs = [f \in Files |-> <<"x">>]
  /\ pc = "idle"
  /\ idx = 1
  /\ filesToProcess = <<>>
  /\ filesAlreadyProcessed = <<>>
  /\ date = <<>>
  /\ pending = <<>>
  /\ requests = [f \in Files |-> 0]
  /\ writes = [f \in Files |-> 0]
  /\ result = [f \in Files |-> "none"]
  /\ before = fs
  /\ edited = {}
  /\ answer = [f \in Files |-> NoAnswer]
  /\ inflight = {}
  /\ run = 1
  /\ stamp = [f \in Files |-> 0]

\* texts given to the extractor: at most MaxPieces pieces, each a fence, a
\* newline, a single backtick or another character
MaxPieces == 8

Pieces == {Fence, <<NL>>, <<"a">>, <<BT>>}

Texts ==
  {Flatten(ps) : ps \in UNION {[1..n -> Pieces] : n \in 0..MaxPieces}}

InitExtract ==
  /\ response \in Texts
  /\ outcome = NotCalled
  /\ again = NotCalled
  /\ CommentIdle
  /\ RunIdle
  /\ ParamsIdle

\* extractCodeBlock(response)
ExtractCall ==
  /\ outcome.kind = "none"
  /\ outcome' = extractCodeBlock(response)
  /\ UNCHANGED <<response, again, commentVars, runVars, paramVars>>

\* extractCodeBlock applied to its own result
ExtractAgain ==
  /\ outcome.kind = "return"
  /\ again.kind = "none"
  /\ again' = extractCodeBlock(outcome.value)
  /\ UNCHANGED <<response, outcome, commentVars, runVars, paramVars>>

NextExtract == ExtractCall \/ ExtractAgain

SpecExtract == InitExtract /\ [][NextExtract]_vars

\* names and dates given to the comment builder
MaxNameLen == 3
MaxDateLen == 2

Strings(alphabet, n) == UNION {[1..k -> alphabet] : k \in 0..n}

Names == Strings({"a", "."}, MaxNameLen)
DateArgs == {NoDate} \cup {Dated(d) : d \in Strings({"1", "-"}, MaxDateLen)}

InitComment ==
  /\ name \in Names
  /\ dateArg \in DateArgs
  /\ comment = NotCalled
  /\ otherDate \in DateArgs
  /\ otherComment = NotCalled
  /\ required = NotCalled
  /\ legacy = NotCalled
  /\ ExtractIdle
  /\ RunIdle
  /\ ParamsIdle

\* generateComment(name) or generateComment(name, date)
CommentCall ==
  /\ comment.kind = "none"
  /\ comment' = [kind |-> "return", value |-> generateComment(name, dateArg)]
  /\ UNCHANGED <<name, dateArg, otherDate, otherComment, required, legacy,
                 extractVars, runVars, paramVars>>

\* a file that holds the comment just built, a newline and code
FileWith(c) == c \o <<NL, "x">>

\* requiresProcessing(file, name) on a file whose only comment is the one
\* generateComment(name, date) returned
ContainmentCheck ==
  /\ comment.kind = "return"
  /\ required.kind = "none"
  /\ required' = [kind |-> "return",
                  value |-> requiresProcessing(FileWith(comment.value), name)]
  /\ UNCHANGED <<name, dateArg, comment, otherDate, otherComment, legacy,
                 extractVars, runVars, paramVars>>

\* generateComment(name, otherDate): the same name under a second date
OtherCall ==
  /\ otherComment.kind = "none"
  /\ otherComment' = [kind |-> "return",
                      value |-> generateComment(name, otherDate)]
  /\ UNCHANGED <<name, dateArg, comment, otherDate, required, legacy,
                 extractVars, runVars, paramVars>>

\* the earlier generateComment(promptFile, date), given name as the file name
LegacyCall ==
  /\ legacy.kind = "none"
  /\ legacy' = [kind |-> "return",
                value |-> generateCommentOfFile(name, dateArg)]
  /\ UNCHANGED <<name, dateArg, comment, otherDate, otherComment, required,
                 extractVars, runVars, paramVars>>

NextComment ==
  \/ CommentCall
  \/ ContainmentCheck
  \/ OtherCall
  \/ LegacyCall

SpecComment == InitComment /\ [][NextComment]_vars

\* command lines given to getParams: at most MaxArgs arguments after the
\* script name, each an option or a path
MaxArgs == 4

PromptArg ==
  <<"p", "/", "a", ".", "r", "e", "v", "i", "e", "w", ".", "m", "d">>
SourceArg == <<"s">>

Args ==
  { DryOpt,
    NameOpt \o <<"n">>,
    NameOpt \o <<"k">>,
    NameOpt,
    ModelOpt \o <<"m">>,
    IncludesOpt \o <<"i">>,
    ExtOpt \o <<"t", ",", SP, ",", "j">>,
    Dashes \o <<"z">>,
    PromptArg,
    SourceArg }

CommandLines == UNION {[1..n -> Args] : n \in 0..MaxArgs}

InitParams ==
  /\ argv \in CommandLines
  /\ env \in {undefined, Str(<<"e">>)}
  /\ params = NotCalled
  /\ ExtractIdle
  /\ CommentIdle
  /\ RunIdle

\* const params = getParams()
GetParamsCall ==
  /\ params.kind = "none"
  /\ params' = getParams(argv, env)
  /\ UNCHANGED <<argv, env, extractVars, commentVars, runVars>>

NextParams == GetParamsCall

SpecParams == InitParams /\ [][NextParams]_vars

\* the command lines of the modelled runs: the prompt path p/a.review and the
\* source path, without --dry and with --dry in each position
RunPrompt == <<"p", "/", "a", ".", "r", "e", "v", "i", "e", "w">>

RunCommandLines ==
  { <<RunPrompt, SourceArg>>,
    <<DryOpt, RunPrompt, SourceArg>>,
    <<RunPrompt, DryOpt, SourceArg>>,
    <<RunPrompt, SourceArg, DryOpt>> }

Init ==
  /\ argv \in RunCommandLines
  /\ env = Str(<<"m">>)
  /\ params = getParams(argv, env)
  /\ params.kind = "return"
  /\ promptName = params.value.promptName
  /\ promptName \in RunNames
  /\ dryRun = params.value.dryRun
  /\ today = 1
  /\ fs \in [Files -> InitialContents]
  /\ pc = "start"
  /\ idx = 1
  /\ filesToProcess = <<>>
  /\ filesAlreadyProcessed = <<>>
  /\ date = <<>>
  /\ pending = <<>>
  /\ requests = [f \in Files |-> 0]
  /\ writes = [f \in Files |-> 0]
  /\ result = [f \in Files |-> "none"]
  /\ before = fs
  /\ edited = {}
  /\ answer = [f \in Files |-> NoAnswer]
  /\ inflight = {}
  /\ run = 1
  /\ stamp = [f \in Files |-> 0]
  /\ ExtractIdle
  /\ CommentIdle

Next ==
  \/ ReadPrompt
  \/ PrescanFile
  \/ DryRunCheck
  \/ ProcessFileStart
  \/ CompletionReturns
  \/ CompletionFails
  \/ WriteSucceeds
  \/ WriteFails
  \/ MainReturns
  \/ Midnight
  \/ ExternalEdit

Spec == Init /\ [][Next]_vars

\* the steps of main that need nothing from outside are taken when they can
\* be, every completion request returns or fails and every write resolves or
\* rejects
Fairness ==
  /\ WF_vars(ReadPrompt)
  /\ WF_vars(PrescanFile)
  /\ WF_vars(DryRunCheck)
  /\ WF_vars(ProcessFileStart)
  /\ WF_vars(MainReturns)
  /\ WF_vars(CompletionReturns \/ CompletionFails)
  /\ WF_vars(WriteSucceeds \/ WriteFails)

\* one run on files that no other process touches while it runs
NextFair ==
  \/ ReadPrompt
  \/ PrescanFile
  \/ DryRunCheck
  \/ ProcessFileStart
  \/ CompletionReturns
  \/ CompletionFails
  \/ WriteSucceeds
  \/ WriteFails
  \/ MainReturns
  \/ Midnight

FairSpec == Init /\ [][NextFair]_vars /\ Fairness

\* the tool run again and again on files that no other process touches
NextRerun ==
  \/ ReadPrompt
  \/ PrescanFile
  \/ DryRunCheck
  \/ ProcessFileStart
  \/ CompletionReturns
  \/ CompletionFails
  \/ WriteSucceeds
  \/ WriteFails
  \/ MainReturns
  \/ Midnight
  \/ NewRun

SpecRerun == Init /\ [][NextRerun]_vars

----------------------------------------------------------------------------
(* Properties of extractCodeBlock                                          *)

\* the least position, from the given one on, at which lit occurs in t, or 0
FirstIndex(t, lit, from) ==
  LET hits == {p \in from..Len(t) : HasLit(t, p, lit)}
  IN IF hits = {} THEN 0 ELSE CHOOSE p \in hits : \A q \in hits : p <= q

\* A fenced block read off the text directly, without the pattern matcher:
\* the first fence from s on, the first newline after it, and the first
\* newline followed by a fence after that newline.
blockAfter(t, s) ==
  LET i == FirstIndex(t, Fence, s)
      j == IF i = 0 THEN 0 ELSE FirstIndex(t, <<NL>>, i + Len(Fence))
      k == IF j = 0 THEN 0 ELSE FirstIndex(t, CloseLit, j + 1)
  IN [found |-> k # 0, open |-> i, eol |-> j, close |-> k]

RECURSIVE CountBlocks(_, _)
CountBlocks(t, s) ==
  LET b == blockAfter(t, s)
  IN IF b.found THEN 1 + CountBlocks(t, b.close + Len(CloseLit)) ELSE 0

Called == outcome.kind # "none"

\* C1: extractCodeBlock returns a value if and only if the text holds exactly
\* one non-overlapping fenced block; with 0 or N >= 2 blocks it throws, the
\* error carries that number, and it throws in no other case.
C1_ExactlyOneBlock ==
  Called =>
    LET n == CountBlocks(response, 1)
    IN /\ (outcome.kind = "return") <=> (n = 1)
       /\ (outcome.kind = "throw") <=> (n # 1)
       /\ outcome.kind = "throw" => outcome.got = n

C1_Witness ==
  /\ outcome.kind = "throw"
  /\ outcome.got = 2

\* C2: with exactly one block the result is exactly the characters between
\* the newline that ends the opening fence line and the newline before the
\* closing fence: fences and tag dropped, several lines allowed, nothing
\* trimmed.
C2_ReturnsInnerText ==
  outcome.kind = "return" =>
    LET b == blockAfter(response, 1)
    IN /\ b.found
       /\ outcome.value = SubSeq(response, b.eol + 1, b.close - 1)

\* a tagged block whose content has three characters, starts and ends with
\* white space and spans several lines
C2_Witness ==
  /\ outcome.kind = "return"
  /\ Len(outcome.value) = 3
  /\ outcome.value[1] = NL
  /\ outcome.value[3] = NL
  /\ blockAfter(response, 1).eol > blockAfter(response, 1).open + Len(Fence)

\* C6: a text without any triple-backtick sequence fails with count 0.
C6_NoFenceFailsWithZero ==
  (Called /\ ~includes(response, Fence)) =>
    (outcome.kind = "throw" /\ outcome.got = 0)

C6_Witness ==
  /\ Called
  /\ ~includes(response, Fence)
  /\ Len(response) >= 4
  /\ includes(response, <<BT, BT>>)
  /\ includes(response, <<NL>>)

\* C7: extractCodeBlock applied to its own result fails with count 0.
C7_ResultHasNoBlock ==
  again.kind # "none" => (again.kind = "throw" /\ again.got = 0)

\* a result that holds fences of its own, fed back
C7_Witness ==
  /\ again.kind = "throw"
  /\ includes(outcome.value, Fence)
  /\ includes(outcome.value, <<NL>>)

\* the positions at which three backticks start
FenceAt(t) == {p \in 1..Len(t) : HasLit(t, p, Fence)}

NewlinesIn(t, a, b) == Cardinality({p \in a..b : t[p] = NL})

\* every fence of the text is glued to every later one: fewer than two
\* newlines lie between them, so no content is framed by a newline on both
\* sides
GluedOnly(t) ==
  /\ FenceAt(t) # {}
  /\ \A i, k \in FenceAt(t) :
       i + Len(Fence) <= k => NewlinesIn(t, i + Len(Fence), k - 1) < 2

\* C8: a block whose content is not framed by a newline on both sides inside
\* the fences is not counted: a text whose fences are all glued in that way
\* fails with count 0.
C8_GluedBlockNotRecognized ==
  (Called /\ GluedOnly(response)) =>
    (outcome.kind = "throw" /\ outcome.got = 0)

\* an opening fence line directly followed by the closing fence line
C8_Witness ==
  /\ response = Fence \o <<"a", NL>> \o Fence
  /\ outcome.kind = "throw"

\* the position after the closing fence of the block the code matched
AfterClose == execFrom(response, 1).stop

\* C9 as stated: the closing fence of a recognized block is a whole line, so
\* nothing but a line end follows it.
C9_ClosingFenceIsWholeLine ==
  outcome.kind = "return" =>
    (AfterClose > Len(response) \/ response[AfterClose] = NL)

\* C9 as amended: the content of a recognized block ends immediately before
\* the first newline after the opening fence line that is followed by three
\* backticks; what follows those backticks on their line is not examined.
C9_ContentEndsAtFirstNewlineFence ==
  outcome.kind = "return" =>
    LET c == blockAfter(response, 1).eol + 1
        n == Len(outcome.value)
    IN /\ SubSeq(response, c, c + n - 1) = outcome.value
       /\ HasLit(response, c + n, CloseLit)
       /\ \A p \in c..(c + n - 1) : ~HasLit(response, p, CloseLit)

\* a block closed by a line that goes on after its three backticks
C9_Witness ==
  /\ outcome.kind = "return"
  /\ outcome.value # <<>>
  /\ AfterClose <= Len(response)
  /\ response[AfterClose] = "a"

\* the position of the opening fence of the block the code matched
OpenIndex == execFrom(response, 1).index

\* C10 as stated: the opening fence of a recognized block begins a line.
C10_OpeningFenceBeginsLine ==
  outcome.kind = "return" => (OpenIndex = 1 \/ response[OpenIndex - 1] = NL)

\* C10 as amended: the opening fence of a recognized block is the first
\* triple-backtick sequence of the text, wherever on its line it stands, and
\* the rest of that line is the tag.
C10_OpeningFenceIsFirstFence ==
  outcome.kind = "return" =>
    LET i == FirstIndex(response, Fence, 1)
        j == FirstIndex(response, <<NL>>, i + Len(Fence))
    IN /\ i # 0
       /\ OpenIndex = i
       /\ j # 0
       /\ SubSeq(response, j + 1, j + Len(outcome.value)) = outcome.value

\* a block opened by three backticks that follow another character
C10_Witness ==
  /\ outcome.kind = "return"
  /\ outcome.value # <<>>
  /\ OpenIndex > 1
  /\ response[OpenIndex - 1] = "a"

----------------------------------------------------------------------------
(* Properties of generateComment                                           *)

\* C3 as stated: for every name and every date string the result is the
\* dateless text when no date is given and the text ending in " on <date>"
\* when one is given.
C3_DateAlwaysAppended ==
  comment.kind = "return" =>
    comment.value =
      IF dateArg.given
      THEN CommentHead \o name \o CommentTail \o CommentOn \o dateArg.str
      ELSE CommentHead \o name \o CommentTail

\* C3 as amended: the same for every name and every date string that is not
\* empty; an empty date string is taken as no date. The name, and the date
\* when it is appended, stand in the result verbatim.
C3_VerbatimComment ==
  comment.kind = "return" =>
    /\ comment.value =
         IF dateArg.given /\ dateArg.str # <<>>
         THEN CommentHead \o name \o CommentTail \o CommentOn \o dateArg.str
         ELSE CommentHead \o name \o CommentTail
    /\ includes(comment.value, name)
    /\ dateArg.given => includes(comment.value, dateArg.str)

\* a name of several segments, with a date
C3_Witness ==
  /\ comment.kind = "return"
  /\ name = <<"a", ".", "a">>
  /\ dateArg.given
  /\ Len(dateArg.str) = 2

\* C11 (as stated): a file whose only comment is the dated one of a name is
\* not reported as holding the dateless comment of that name, that is,
\* requiresProcessing answers true for it.
C11_DatedFileNotReportedAsDateless ==
  (required.kind = "return" /\ truthy(dateArg)) => required.value = TRUE

\* C11 (amended): the dateless comment is a prefix of every dated comment of
\* the same name, so a file whose only comment is the dated one is reported as
\* holding the dateless one (requiresProcessing answers false); only the
\* search the other way round tells them apart: a file whose only comment is
\* the dateless one does not hold the dated one.
C11_DatedFileReportedAsDateless ==
  required.kind = "return" =>
    LET dateless == generateComment(name, NoDate)
    IN /\ required.value = FALSE
       /\ Len(comment.value) >= Len(dateless)
       /\ SubSeq(comment.value, 1, Len(dateless)) = dateless
       /\ truthy(dateArg) => ~includes(FileWith(dateless), comment.value)

C11_Witness ==
  /\ required.kind = "return"
  /\ name = <<"a", ".", "a">>
  /\ dateArg = Dated(<<"1", "-">>)
  /\ required.value = FALSE

IsPrefix(a, b) == Len(a) <= Len(b) /\ SubSeq(b, 1, Len(a)) = a

BothBuilt == comment.kind = "return" /\ otherComment.kind = "return"

TwoDates == dateArg.given /\ otherDate.given /\ dateArg.str # otherDate.str

\* C12 (as stated): for every name and every two different dates, neither of
\* the two dated comments is a substring of the other.
C12_DifferentDatesNeverContained ==
  (BothBuilt /\ TwoDates) =>
    /\ ~includes(otherComment.value, comment.value)
    /\ ~includes(comment.value, otherComment.value)

\* C12 (amended): for every name and every two different dates of the same
\* length, neither dated comment is a substring of the other; when one date is
\* a prefix of the other (the empty date included), its comment is a
\* substring of the other's.
C12_SameLengthDatesNotContained ==
  (BothBuilt /\ TwoDates) =>
    /\ Len(dateArg.str) = Len(otherDate.str) =>
         /\ ~includes(otherComment.value, comment.value)
         /\ ~includes(comment.value, otherComment.value)
    /\ IsPrefix(dateArg.str, otherDate.str) =>
         includes(otherComment.value, comment.value)

C12_Witness ==
  /\ BothBuilt
  /\ name = <<"a", ".">>
  /\ dateArg = Dated(<<"1", "-">>)
  /\ otherDate = Dated(<<"1", "1">>)
  /\ ~includes(otherComment.value, comment.value)

\* the part of t before its first dot, all of t when it has none
BeforeFirstDot(t) ==
  LET dots == {q \in 1..Len(t) : t[q] = "."}
      first == IF dots = {} THEN Len(t) + 1
               ELSE CHOOSE q \in dots : \A r \in dots : q <= r
  IN SubSeq(t, 1, first - 1)

\* C17: the generateComment that is given a prompt file name puts in the
\* comment only the part of the file name before its first dot, followed by
\* the date when one is given: a, a.a and a.. all give the comment of a.
C17_FileNameCutAtFirstDot ==
  legacy.kind = "return" =>
    /\ legacy.value =
         CommentHead \o BeforeFirstDot(name) \o CommentTail \o
           (IF truthy(dateArg) THEN CommentOn \o dateArg.str ELSE <<>>)
    /\ name \in {<<"a">>, <<"a", ".", "a">>, <<"a", ".", ".">>} =>
         legacy.value = generateComment(<<"a">>, dateArg)

C17_Witness ==
  /\ legacy.kind = "return"
  /\ name = <<"a", ".", ".">>
  /\ dateArg = Dated(<<"1", "-">>)
  /\ legacy.value = generateComment(<<"a">>, Dated(<<"1", "-">>))

----------------------------------------------------------------------------
(* Properties of a run                                                     *)

\* the response texts the completions of the model give
Responses ==
  {IF c.hasContent THEN c.content ELSE <<>> : c \in Completions}

\* those of them in which extractCodeBlock finds no single block
FailingResponses == {r \in Responses : extractCodeBlock(r).kind = "throw"}

\* processFile ended for f without a usable block, or before it asked for one
FailedBeforeWrite(f) ==
  \/ result[f] \in {"readError", "requestError", "extractError"}
  \/ answer[f].got /\ answer[f].text \in FailingResponses

\* C4: when extraction fails for the response of a file (no block, several
\* blocks, or a missing body taken as the empty text), or the read or the
\* completion request fails, processFile calls no write and the file keeps
\* the content it had. (Stated from the write back: a file that was written,
\* or whose content changed without another process changing it, did not
\* fail in any of these ways.)
C4_NoWriteOnFailure ==
  \A f \in Files :
    (writes[f] # 0 \/ (f \notin edited /\ fs[f] # before[f])) =>
      ~FailedBeforeWrite(f)

\* one file failed on a response of two blocks, another on a missing body
C4_Witness ==
  /\ pc = "done"
  /\ edited = {}
  /\ \E f, g \in Files :
       /\ result[f] = "extractError"
       /\ answer[f].got
       /\ includes(answer[f].text, OneBlock)
       /\ result[g] = "extractError"
       /\ answer[g].got
       /\ answer[g].text = <<>>

\* the file, when the run found it, carried the comment of the run's name
\* dated day d
CarriesDated(f, d) ==
  includes(before[f], generateComment(promptName, Dated(formatDate(d))))

\* the file, when the run found it, carried a comment of the run's name,
\* dated or not
CarriesAny(f) == includes(before[f], generateComment(promptName, NoDate))

RunEndedNotDry == pc = "done" /\ ~dryRun

\* C5 as stated: in a run without --dry a file is skipped if it carries
\* today's dated comment, and otherwise a request is sent for it. (Stated
\* for the files no other process changed and whose read did not fail.)
C5_SkippedOnlyOnTodaysComment ==
  RunEndedNotDry =>
    \A f \in Files \ edited :
      result[f] # "readError" =>
        /\ (\A d \in 1..today : CarriesDated(f, d)) =>
             (requests[f] = 0 /\ writes[f] = 0)
        /\ (\A d \in 1..today : ~CarriesDated(f, d)) => requests[f] = 1

\* C5 as amended: in a run without --dry that gets past the pre-scan, a file
\* no other process changes is skipped (no request, no write) if it carries
\* the comment of the name with any date or none, and otherwise one request
\* is sent for it unless its read in processFile fails.
C5_SkippedOnAnyCommentOfName ==
  RunEndedNotDry =>
    \A f \in Files \ edited :
      /\ CarriesAny(f) =>
           (requests[f] = 0 /\ writes[f] = 0 /\ fs[f] = before[f])
      /\ (~CarriesAny(f) /\ result[f] # "readError") => requests[f] = 1

\* a file with the comment of another day was skipped, a plain one was sent
C5_Witness ==
  /\ RunEndedNotDry
  /\ edited = {}
  /\ \E f, g \in Files :
       /\ CarriesDated(f, 0)
       /\ requests[f] = 0
       /\ ~CarriesAny(g)
       /\ requests[g] = 1

\* C13: when processFile succeeds for a file, the write puts in the file
\* exactly the dated comment of the day processFile took as today, one
\* newline, and the code extracted from the response, verbatim; the comment
\* is the first line and nothing of the previous content is left.
C13_WrittenContentIsCommentThenCode ==
  [][(pc = "awaitWrite" /\ result'[current] = "finished") =>
       /\ \E d \in Days : d <= today /\ date = formatDate(d)
       /\ answer[current].got
       /\ extractCodeBlock(answer[current].text).kind = "return"
       /\ fs'[current] =
            generateComment(promptName, Dated(date)) \o <<NL>> \o
              extractCodeBlock(answer[current].text).value]_vars

C13_Witness ==
  \E f \in Files :
    /\ result[f] = "finished"
    /\ f \notin edited
    /\ before[f] = generateComment(<<"b">>, Dated(formatDate(1))) \o <<NL, "x">>
    /\ fs[f] = generateComment(promptName, Dated(formatDate(1))) \o <<NL, "y">>

\* C14: the files are processed strictly one after another: at no time
\* are two completion requests or two writes pending, the only pending call
\* belongs to the file whose processFile is under way, and no file has two
\* pending writes.
C14_OneCallInFlight ==
  /\ Cardinality(inflight) <= 1
  /\ \A o \in inflight :
       /\ pc = (IF o.op = "request" THEN "awaitCompletion" ELSE "awaitWrite")
       /\ o.file = current
  /\ pc \notin {"awaitCompletion", "awaitWrite"} => inflight = {}

C14_Witness ==
  /\ pc = "awaitWrite"
  /\ idx = 2
  /\ result[filesToProcess[1]] = "finished"
  /\ inflight = {Write(filesToProcess[2])}

TwoBlocks == OneBlock \o <<NL>> \o OneBlock

\* C15: within one run at most one completion request is sent and at most
\* one write is made for a file, and a write only after a request; when the
\* extraction failed for the file, one request was sent, no write was made and
\* the file keeps its content, and a response of several blocks is such a
\* failure: none of its blocks is written.
C15_AtMostOneRequestAndOneWrite ==
  \A f \in Files :
    /\ requests[f] <= 1
    /\ writes[f] <= requests[f]
    /\ result[f] = "extractError" =>
         /\ requests[f] = 1
         /\ writes[f] = 0
         /\ f \notin edited => fs[f] = before[f]
    /\ (answer[f].got /\ answer[f].text = TwoBlocks) =>
         /\ result[f] = "extractError"
         /\ f \notin edited => fs[f] = before[f]

C15_Witness ==
  /\ pc = "done"
  /\ edited = {}
  /\ \E f, g \in Files :
       /\ result[f] = "extractError"
       /\ answer[f].text = TwoBlocks
       /\ requests[f] = 1
       /\ writes[f] = 0
       /\ fs[f] = <<"x">>
       /\ result[g] = "finished"
       /\ requests[g] = 1
       /\ writes[g] = 1

DryGiven == \E i \in 1..Len(argv) : argv[i] = DryOpt

\* C16: with --dry anywhere on the command line the run classifies the
\* files and ends without processing: no request is sent, no write is made,
\* and every file that no other process rewrote holds at the end the content
\* it had at the start.
C16_DryRunSendsAndWritesNothing ==
  DryGiven =>
    /\ pc \in {"start", "prescan", "done", "rejected"}
    /\ inflight = {}
    /\ \A f \in Files :
         /\ requests[f] = 0
         /\ writes[f] = 0
         /\ f \notin edited => fs[f] = before[f]
    /\ pc = "done" =>
         Len(filesToProcess) + Len(filesAlreadyProcessed) = Len(files)

C16_Witness ==
  /\ pc = "done"
  /\ argv = <<RunPrompt, SourceArg, DryOpt>>
  /\ filesToProcess = <<2>>
  /\ filesAlreadyProcessed = <<1>>
  /\ edited = {}
  /\ fs = before

InList(f, list) == \E i \in 1..Len(list) : list[i] = f

\* the pre-scan of the current run has classified f
Classified(f) ==
  \/ pc \in {"process", "awaitCompletion", "awaitWrite", "done"}
  \/ pc = "prescan" /\ \E i \in 1..Len(files) : files[i] = f /\ idx > i

\* C18: when processFile succeeded on a file in an earlier run and nothing
\* changed the file since, every later run under the same name, on the same
\* day or a later one, finds the comment in it, classifies it as already
\* processed, sends no request for it and does not write it.
C18_RerunLeavesProcessedFiles ==
  \A f \in Files :
    (stamp[f] # 0 /\ stamp[f] < run) =>
      /\ requests[f] = 0
      /\ writes[f] = 0
      /\ fs[f] = before[f]
      /\ ~InList(f, filesToProcess)
      /\ Classified(f) => InList(f, filesAlreadyProcessed)
      /\ ~requiresProcessing(fs[f], promptName)

C18_Witness ==
  /\ run = 2
  /\ pc = "done"
  /\ today = 2
  /\ \E f, g \in Files :
       /\ stamp[f] = 1
       /\ InList(f, filesAlreadyProcessed)
       /\ requests[f] = 0
       /\ fs[f] = generateComment(promptName, Dated(formatDate(1)))
                    \o <<NL, "y">>
       /\ stamp[g] = 2
       /\ result[g] = "finished"

\* processFile has returned for f in this run
Attempted(f) == result[f] # "none"

\* C21: whatever fails inside processFile for a file (the read, the
\* completion request, the extraction or the write), the run goes on: the
\* files of filesToProcess are taken in list order, main rejects only before
\* the first processFile call, a run without --dry ends with every file of
\* filesToProcess attempted, and when every request returns or fails the run
\* terminates.
C21_FailuresDoNotStopTheRun ==
  /\ [](pc \in {"process", "awaitCompletion", "awaitWrite"} =>
         \A i \in 1..Len(filesToProcess) :
           Attempted(filesToProcess[i]) <=> i < idx)
  /\ [](pc = "rejected" =>
         \A f \in Files : requests[f] = 0 /\ ~Attempted(f))
  /\ [](RunEndedNotDry =>
         \A i \in 1..Len(filesToProcess) : Attempted(filesToProcess[i]))
  /\ <>(~Running)

\* the first file failed after its read and the second was still rewritten
C21_Witness ==
  /\ RunEndedNotDry
  /\ filesToProcess = <<1, 2>>
  /\ result[1] \in {"requestError", "extractError", "writeError"}
  /\ result[2] = "finished"
  /\ fs[2] # before[2]

\* the number of files the pre-scan has put in one of its two lists
NumClassified == Len(filesToProcess) + Len(filesAlreadyProcessed)

\* C22: a read that fails in the pre-scan is not caught per file. The
\* pre-scan passes over no file: it has classified every file before the one
\* it is at, and the dry-run check and processFile are reached only with all
\* files classified. When main rejects, some file is unclassified, no request
\* was sent, nothing was written, no call is pending, and every file no other
\* process rewrote has the content it had, the readable ones before and after
\* the unreadable one included.
C22_PrescanReadFailureRejectsMain ==
  /\ pc = "prescan" => NumClassified = idx - 1
  /\ pc \in {"process", "awaitCompletion", "awaitWrite", "done"} =>
       NumClassified = Len(files)
  /\ pc = "rejected" =>
       /\ NumClassified < Len(files)
       /\ inflight = {}
       /\ \A f \in Files :
            /\ requests[f] = 0
            /\ writes[f] = 0
            /\ result[f] = "none"
            /\ f \notin edited => fs[f] = before[f]

\* the first file was found to need processing, the read of the second failed
C22_Witness ==
  /\ pc = "rejected"
  /\ ~dryRun
  /\ filesToProcess = <<1>>
  /\ filesAlreadyProcessed = <<>>
  /\ requests = [f \in Files |-> 0]
  /\ fs = before

\* C23: the pre-scan subsumes the check in processFile. A file that reaches
\* processFile and that no other process rewrote during the run had neither
\* the dateless comment of the name nor a dated one of any day of the run
\* when the run found it, the skip branch of processFile is not taken for it,
\* and once processFile has returned for it either its read failed or one
\* request was sent for it.
C23_PrescanSubsumesSkipCheck ==
  \A f \in Files \ edited :
    /\ result[f] # "skipped"
    /\ InList(f, filesToProcess) =>
         /\ ~CarriesAny(f)
         /\ \A d \in Days : ~CarriesDated(f, d)
    /\ Attempted(f) => (result[f] = "readError" \/ requests[f] = 1)

\* both files went through processFile: one failed at its read, one was sent
C23_Witness ==
  /\ RunEndedNotDry
  /\ edited = {}
  /\ today = 2
  /\ filesToProcess = <<1, 2>>
  /\ result[1] = "readError"
  /\ requests[1] = 0
  /\ requests[2] = 1

----------------------------------------------------------------------------
(* Properties of getParams                                                *)

NameOptions == {i \in 1..Len(argv) : startsWith(argv[i], NameOpt)}

LastNameOption == CHOOSE i \in NameOptions : \A j \in NameOptions : j <= i

Returned == params.kind = "return"

\* C19 (as stated): whenever a non-empty --name=X stands on the command
\* line, before or after the prompt path, the promptName getParams returns
\* is X.
C19_EveryNameOptionWins ==
  Returned =>
    \A i \in NameOptions :
      slice(argv[i], Len(NameOpt)) # <<>> =>
        params.value.promptName = slice(argv[i], Len(NameOpt))

\* C19 (amended): when the last --name=X on the command line is non-empty,
\* the promptName getParams returns is X, whether that option stands before
\* or after the prompt path; of several --name options the last one counts.
C19_LastNameOptionWins ==
  (Returned /\ NameOptions # {}) =>
    LET X == slice(argv[LastNameOption], Len(NameOpt))
    IN X # <<>> => params.value.promptName = X

C19_Witness ==
  /\ Returned
  /\ argv = <<NameOpt \o <<"k">>, PromptArg, NameOpt \o <<"n">>, SourceArg>>
  /\ params.value.promptName = <<"n">>

\* the last extension of a file name cut off, as path.parse(f).name does
WithoutExtension(f) ==
  IF lastDot(f) <= 1 THEN f ELSE SubSeq(f, 1, lastDot(f) - 1)

\* a .review at the end of t cut off
WithoutReviewSuffix(t) ==
  IF HasLit(t, Len(t) - Len(ReviewLit) + 1, ReviewLit)
  THEN SubSeq(t, 1, Len(t) - Len(ReviewLit)) ELSE t

\* C20 (as stated): with no --name on the command line, the promptName
\* getParams returns is the basename of the prompt path with its file
\* extension cut off and a .review suffix, when there is one, cut off, and
\* nothing else removed.
C20_DerivedNameHasNoExtension ==
  (Returned /\ NameOptions = {}) =>
    params.value.promptName =
      WithoutReviewSuffix(WithoutExtension(basename(params.value.promptPath)))

====
